---- MODULE Spec2Model ----
(***************************************************************************)
(* AugView: the pipeline store and execution engine of augview/core.py and *)
(* the synchronisation hub of augview/server.py.                           *)
(*                                                                         *)
(* Images.  An image is a row of pixels.  A raw image, the value that the   *)
(* local variable current_image of process_image can hold, is              *)
(*   - a numpy array   [form "nd",  ch, dtype, px]                         *)
(*       ch = 1 : a 2-D array (H,W); ch = 3 : (H,W,3); ch = 4 : (H,W,4)    *)
(*       dtype "u8" (uint8) or "f" (float); px the pixel values            *)
(*   - a PIL image     [form "pil", ch, dtype "u8", px]   (ch = its mode)  *)
(*   - None            [form "none"]                                       *)
(* An encoded image (base64 PNG) is a blob [ch, px]; NoBlob is the None of *)
(* the Optional[str] fields.                                               *)
(*                                                                         *)
(* Parameter values are Num(k), the number k/2, or Str, a string that is   *)
(* not a number ("abc").                                                   *)
(***************************************************************************)
EXTENDS Integers, Sequences, FiniteSets, TLC

VARIABLES
  steps,            \* pipeline.steps: the TransformStep records, in order
  attrs,            \* the live transform objects of _transforms: their attributes
  original_image,   \* pipeline.original_image (blob)
  final_image,      \* pipeline.final_image (blob)
  last_image,       \* _last_image (raw image, NoneImg when None)
  trace,            \* history: per step, the current_image it received and handed on in the last run
  run,              \* history: how the last call's execution of process_image ended
  ret,              \* history: the last call, its arguments and its result, when watched
  watch,            \* the kind of call ret records: "run", "update", "toggle" or "hub"
  connected_clients,\* server.connected_clients: the observers in the set
  socket,           \* per observer, its connection: "new", "open" or "closed"
  tasks,            \* the broadcast_update tasks created and not yet ended, oldest first
  inbox,            \* per open observer, the pipeline_update messages it received, in order
  commands,         \* the number of commands and uploads the hub has handled
  viewers,          \* the AugView instances of the process, in order of creation
  current_viewer,   \* core._current_viewer: an instance's index, 0 when None
  server_viewer,    \* server._server_viewer: an instance's index, 0 when None
  serving           \* start_server has been called

hub == <<connected_clients, socket, tasks, inbox, commands>>
process == <<viewers, current_viewer, server_viewer, serving>>
vars == <<steps, attrs, original_image, final_image, last_image, trace, run, ret, watch,
          connected_clients, socket, tasks, inbox, commands,
         process>>

\* ------------------------------------------------------------------ bounds
MaxSteps == 2
MaxCommands == 2
MaxViewers == 2

\* The observers (websocket connections) of the hub.
Observers == {"o1", "o2"}

\* ------------------------------------------------------------------ values
Num(k) == [t |-> "num", n |-> k]
IntVal(k) == [t |-> "int", n |-> k]
Str == [t |-> "str"]
True == [t |-> "bool"]
Pair(lo, hi) == [t |-> "tuple", lo |-> lo, hi |-> hi]
\* a numpy array of several elements
Arr == [t |-> "array"]
NoProb == [t |-> "none"]

NoneImg == [form |-> "none"]
Nd(ch, dtype, px) == [form |-> "nd", ch |-> ch, dtype |-> dtype, px |-> px]
Pil(ch, px) == [form |-> "pil", ch |-> ch, dtype |-> "u8", px |-> px]
NoBlob == [ch |-> 0, px |-> <<>>]

\* The images a caller hands to process_image: an RGBA uint8 array and an RGB
\* float array with values in [0,1].
SourceImages == { Nd(4, "u8", <<127, 128>>), Nd(3, "f", <<0, 1>>) }

AsU8(px) == [i \in DOMAIN px |-> px[i] % 256]

\* AugView.image_to_base64; defined on every image but None (there it raises).
Encodable(img) == img.form # "none"

image_to_base64(img) ==
  IF img.form = "nd"
  THEN [ch |-> IF img.ch \in {1, 4} THEN 3 ELSE img.ch, px |-> AsU8(img.px)]
  ELSE [ch |-> img.ch, px |-> img.px]

\* AugView.base64_to_image: np.array(Image.open(...)).
base64_to_image(b) == Nd(b.ch, "u8", b.px)

\* ------------------------------------------------------------------ transforms
\* The transform classes of the model:
\*   HFlip  albumentations HorizontalFlip(p): attribute p, result {"image": ...};
\*          p is 0 or 1 (Num(0), Num(2)), so that the transform is deterministic
\*   ToPIL  a custom callable object that returns a PIL image:
\*          __init__(self, mode="RGB") keeps its argument as self._mode,
\*          __call__(self, img) is Image.fromarray(img.astype(np.uint8))
\*   NoRet  a custom built-in callable that returns None and takes no attributes
Classes == {"HFlip", "ToPIL", "NoRet"}

TransformType(cls) == IF cls = "HFlip" THEN "albumentations" ELSE "custom"

InitAttrs(cls) ==
  CASE cls = "HFlip" -> [n \in {"p"} |-> Num(2)]
    [] OTHER -> [n \in {} |-> Num(0)]

\* inspect.Parameter.empty
Empty == [t |-> "empty"]

\* inspect.signature(transform.__class__.__init__): the parameters but self,
\* each with its annotation ("float", "int", "bool", or "" for none) and default.
Signature(cls) ==
  CASE cls = "HFlip" -> <<[name |-> "p", annotation |-> "float", default |-> Num(1)]>>
    [] cls = "ToPIL" -> <<[name |-> "mode", annotation |-> "", default |-> Str]>>
    [] OTHER -> <<>>

Reverse(px) == [i \in DOMAIN px |-> px[Len(px) + 1 - i]]

Raise == [kind |-> "raise"]
Ok(img) == [kind |-> "ok", img |-> img]

\* What calling the transform on the image does: it raises, or returns a result.
Call(cls, at, img) ==
  CASE cls = "HFlip" ->
         IF img.form # "nd" \/ at["p"].t # "num" THEN Raise
         ELSE IF at["p"].n >= 2 THEN Ok([img EXCEPT !.px = Reverse(img.px)])
         ELSE Ok(img)
    [] cls = "ToPIL" ->
         IF img.form = "nd" THEN Ok(Pil(img.ch, AsU8(img.px))) ELSE Raise
    [] OTHER -> Ok(NoneImg)


\* ------------------------------------------------------------------ execution
Max(px) == CHOOSE m \in {px[i] : i \in DOMAIN px} : \A i \in DOMAIN px : px[i] <= m

RECURSIVE SumAbsDiff(_, _, _)
SumAbsDiff(a, b, i) ==
  IF i > Len(a) THEN 0
  ELSE (IF a[i] >= b[i] THEN a[i] - b[i] ELSE b[i] - a[i]) + SumAbsDiff(a, b, i + 1)

\* process_image, "Ensure proper dtype" and "Ensure 3 channels", on a numpy array.
Normalize(img) ==
  LET px8 == IF img.dtype = "u8" THEN img.px
             ELSE IF Max(img.px) <= 1 THEN AsU8([i \in DOMAIN img.px |-> img.px[i] * 255])
             ELSE AsU8(img.px)
  IN Nd(IF img.ch \in {1, 4} THEN 3 ELSE img.ch, "u8", px8)

\* AugView._check_transform_applied on two numpy arrays: the shapes differ, or
\* the mean absolute difference is above 0.5.
check_transform_applied(input_img, output_img) ==
  \/ input_img.ch # output_img.ch
  \/ 2 * SumAbsDiff(input_img.px, output_img.px, 1) > Len(input_img.px)

\* The step as the disabled branch and the except branch leave it.
Passthrough_ResetsParams(step, inp) ==
  [step EXCEPT !.input_image = inp, !.output_image = inp, !.applied = FALSE,
               !.params = InitAttrs(step.cls)]

Passthrough(step, inp) ==
  [step EXCEPT !.input_image = inp, !.output_image = inp, !.applied = FALSE]

\* The step as the try block leaves it when nothing raises.
Applied(step, inp, before, after) ==
  [step EXCEPT !.input_image = inp, !.output_image = image_to_base64(after),
               !.applied = check_transform_applied(before, after)]

\* How the try block of an enabled step ends, given what the transform call did:
\*   "call"  the call raised: current_image is untouched
\*   "dtype" current_image, already assigned, is no array: current_image.dtype raises
\*   "shape" input_for_comparison is no array: _check_transform_applied raises
\*   "ok"    nothing raised
TryEnds(cur, c) ==
  IF c.kind = "raise" THEN "call"
  ELSE IF c.img.form # "nd" THEN "dtype"
  ELSE IF cur.form # "nd" THEN "shape"
  ELSE "ok"

\* current_image after the try block of an enabled step.
CurrentAfter(cur, c, ends) ==
  IF ends = "call" THEN cur
  ELSE IF ends = "dtype" THEN c.img
  ELSE Normalize(c.img)

\* The iteration of an enabled step: the step as written, the new current_image.
Tried(step, inp, cur, after, ends) ==
  [step |-> IF ends = "ok" THEN Applied(step, inp, cur, after) ELSE Passthrough(step, inp),
   cur |-> after,
   out |-> IF ends = "ok" THEN "ok" ELSE "failed"]

TryStep(step, inp, cur, c, ends) == Tried(step, inp, cur, CurrentAfter(cur, c, ends), ends)

\* One iteration of the loop of process_image on a step, with current_image = cur
\* (cur is not None: encoding None raises before any field is written).
\* Gives the step as written, the new current_image and how the iteration ended.
StepRun(step, at, cur) ==
  IF ~step.enabled
  THEN [step |-> Passthrough(step, image_to_base64(cur)), cur |-> cur, out |-> "skipped"]
  ELSE TryStep(step, image_to_base64(cur), cur, Call(step.cls, at, cur),
               TryEnds(cur, Call(step.cls, at, cur)))

Unreached == [recv |-> NoneImg, passed |-> NoneImg, out |-> "unreached"]

\* The loop of process_image from step i on.  raised: an image_to_base64 call
\* outside the try block raised, which ends process_image with that exception.
RECURSIVE RunFrom(_, _, _, _, _)
Continue(st, at, tr, i, cur, r) ==
  RunFrom([st EXCEPT ![i] = r.step], at,
          [tr EXCEPT ![i] = [recv |-> cur, passed |-> r.cur, out |-> r.out]],
          i + 1, r.cur)

RunFrom(st, at, tr, i, cur) ==
  IF i > Len(st) THEN [steps |-> st, trace |-> tr, cur |-> cur, raised |-> FALSE]
  ELSE IF ~Encodable(cur)
  THEN [steps |-> st, trace |-> [tr EXCEPT ![i] = [recv |-> cur, passed |-> cur, out |-> "raised"]],
        cur |-> cur, raised |-> TRUE]
  ELSE Continue(st, at, tr, i, cur, StepRun(st[i], at[i], cur))

\* The cached source image process_image keeps for rerun.
StoredLast_Processed(image, finalcur) == finalcur

StoredLast(image, finalcur) == image

\* The final image process_image stores after the loop.
FinalOf(v, cur) == image_to_base64(cur)

\* AugView.process_image(image) on the viewer state v.
\* run: "returned", or "raised" when an exception ends the call.
Finished(v, image, r, done) ==
  [v |-> [v EXCEPT !.last_image = StoredLast(image, r.cur),
                   !.original_image = image_to_base64(image),
                   !.steps = r.steps,
                   !.trace = r.trace,
                   !.final_image = IF done THEN FinalOf(v, r.cur) ELSE @],
   rc |-> IF done THEN "returned" ELSE "raised",
   run |-> IF done THEN "returned" ELSE "raised"]

\* the loop ended, and encoding the final image did not raise
Done(r) == ~r.raised /\ Encodable(r.cur)

AfterLoop(v, image, r) == Finished(v, image, r, Done(r))

process_image(v, image) ==
  AfterLoop(v, image,
            RunFrom(v.steps, v.attrs, [i \in 1..Len(v.steps) |-> Unreached], 1, image))

NoRun(v, rc) == [v |-> v, rc |-> rc, run |-> "none"]

\* AugView.rerun().  rc: "returned", "raised" or "none" (no image: returns None).
RerunSource(v) ==
  IF v.last_image # NoneImg THEN v.last_image ELSE base64_to_image(v.original_image)

rerun(v) ==
  IF v.last_image = NoneImg /\ v.original_image = NoBlob THEN NoRun(v, "none")
  ELSE process_image(v, RerunSource(v))

\* ------------------------------------------------------------------ the store
\* setattr(transform, name, value): a built-in callable takes no attributes.
SetattrRaises(cls, name, value) == cls = "NoRet"

\* float(value)
FloatRaises(value) == value.t # "num"

Put(f, name, value) == [n \in DOMAIN f \cup {name} |-> IF n = name THEN value ELSE f[n]]

KnownId(v, id) == id \in 1..Len(v.steps)

\* The viewer after setattr(transform, name, value); step.params[name] = value.
Assigned(v, id, name, value) ==
  [v EXCEPT !.attrs[id] = Put(@, name, value), !.steps[id].params = Put(@, name, value)]

\* update_step_param's re-run: self.rerun(); return True, inside the try block.
UpdateRerun_Skipped(v) == NoRun(v, "true")

\* an exception of the run is caught by the except branch: return False
UpdateResult(r) ==
  [v |-> r.v, rc |-> IF r.run = "raised" THEN "false" ELSE "true", run |-> r.run]

UpdateRerun(v) == UpdateResult(rerun(v))

\* if param_name == 'p': step.probability = float(value)
Mirrored(v, id, name, value) ==
  IF name = "p" THEN [v EXCEPT !.steps[id].probability = value] ELSE v

\* The body of update_step_param for the step with the id.
Updated(v, v1, id, name, value) ==
  IF SetattrRaises(v.steps[id].cls, name, value) THEN NoRun(v, "false")
  ELSE IF name = "p" /\ FloatRaises(value) THEN NoRun(v1, "false")
  ELSE UpdateRerun(Mirrored(v1, id, name, value))

UpdateKnown(v, id, name, value) == Updated(v, Assigned(v, id, name, value), id, name, value)

\* What update_step_param does when no step has the id: return False.
UpdateUnknown_Reruns(v) == [rerun(v) EXCEPT !.rc = "false"]

UpdateUnknown(v) == NoRun(v, "false")

\* AugView.update_step_param(step_id, param_name, value).  rc: "true" or "false".
update_step_param(v, id, name, value) ==
  IF KnownId(v, id) THEN UpdateKnown(v, id, name, value) ELSE UpdateUnknown(v)

\* AugView.toggle_step(step_id, enabled).  rc: "true", "false" or "raised".
ToggleResult(r) ==
  [v |-> r.v, rc |-> IF r.run = "raised" THEN "raised" ELSE "true", run |-> r.run]

toggle_step(v, id, enabled) ==
  IF ~KnownId(v, id) THEN NoRun(v, "false")
  ELSE ToggleResult(rerun([v EXCEPT !.steps[id].enabled = enabled]))

\* AugView._get_probability
get_probability(at) == IF "p" \in DOMAIN at THEN at["p"] ELSE NoProb

\* AugView._extract_param_specs, the spec of one parameter.  Num(k) is the
\* float k/2 and IntVal(k) the int k; the steps 0.05, 0.01 and 1 are kept as written.
Unspecified(name) ==
  [name |-> name, type |-> "unknown", min |-> Empty, max |-> Empty, step |-> "",
   is_probability |-> FALSE, default |-> Empty]

Annotated(prm) ==
  IF prm.name = "p"
  THEN [Unspecified(prm.name) EXCEPT !.type = "float", !.min = Num(0), !.max = Num(2),
                                     !.step = "0.05", !.is_probability = TRUE]
  ELSE IF prm.annotation = "float"
  THEN [Unspecified(prm.name) EXCEPT !.type = "float", !.min = Num(0), !.max = Num(2),
                                     !.step = "0.01"]
  ELSE IF prm.annotation = "int"
  THEN [Unspecified(prm.name) EXCEPT !.type = "int", !.min = IntVal(0), !.max = IntVal(100),
                                     !.step = "1"]
  ELSE IF prm.annotation = "bool"
  THEN [Unspecified(prm.name) EXCEPT !.type = "bool"]
  ELSE Unspecified(prm.name)

\* max(1.0, default * 2) of a float default, in halves
FloatMax_Doubled(d) == Num(2 * d.n)

FloatMax(d) == Num(IF 2 * d.n > 2 THEN 2 * d.n ELSE 2)

WithDefault(spec, d) ==
  IF d = Empty THEN spec
  ELSE IF d.t = "num"
  THEN [spec EXCEPT !.default = d, !.type = "float", !.min = Num(0),
                    !.max = FloatMax(d), !.step = "0.01"]
  ELSE IF d.t = "int"
  THEN [spec EXCEPT !.default = d, !.type = "int", !.min = IntVal(0),
                    !.max = IntVal(IF 2 * d.n > 100 THEN 2 * d.n ELSE 100), !.step = "1"]
  ELSE IF d.t = "bool"
  THEN [spec EXCEPT !.default = d, !.type = "bool"]
  ELSE IF d.t = "tuple"
  THEN [spec EXCEPT !.default = d, !.type = "range", !.min = d.lo, !.max = d.hi]
  ELSE [spec EXCEPT !.default = d]

SpecOf(prm) == WithDefault(Annotated(prm), prm.default)

\* The names the loop skips.
Skipped == {"self", "args", "kwargs"}

\* param.default != inspect.Parameter.empty raises for an array default.
InspectRaises(prm) == prm.default = Arr

\* The loop over sig.parameters from parameter k on: the except clause ends it at
\* the first parameter whose inspection raises, and specs is returned as it is.
RECURSIVE SpecsFrom(_, _, _)
SpecsFrom(sig, k, specs) ==
  IF k > Len(sig) THEN specs
  ELSE IF sig[k].name \in Skipped THEN SpecsFrom(sig, k + 1, specs)
  ELSE IF InspectRaises(sig[k]) THEN specs
  ELSE SpecsFrom(sig, k + 1, Put(specs, sig[k].name, SpecOf(sig[k])))

NoSpecs == [n \in {} |-> Unspecified("")]

\* AugView._extract_param_specs(transform) of a constructor: inspect.signature
\* raises for one without a signature.
ParamSpecs(ctor) == IF ctor.found THEN SpecsFrom(ctor.parameters, 1, NoSpecs) ELSE NoSpecs

Found(sig) == [found |-> TRUE, parameters |-> sig]

extract_param_specs(cls) == ParamSpecs(Found(Signature(cls)))

\* AugView.add_transform(transform): the new TransformStep, appended.
NewStep(v, cls) ==
  [id |-> Len(v.steps) + 1, cls |-> cls, transform_type |-> TransformType(cls),
   params |-> InitAttrs(cls), param_specs |-> extract_param_specs(cls),
   input_image |-> NoBlob, output_image |-> NoBlob,
   enabled |-> TRUE, applied |-> TRUE, probability |-> get_probability(InitAttrs(cls))]

add_transform_Prepends(v, cls) ==
  [v EXCEPT !.steps = <<NewStep(v, cls)>> \o @, !.attrs = <<InitAttrs(cls)>> \o @]

add_transform(v, cls) ==
  [v EXCEPT !.steps = Append(@, NewStep(v, cls)), !.attrs = Append(@, InitAttrs(cls))]

\* ------------------------------------------------------------------ the state machine
View == [steps |-> steps, attrs |-> attrs, original_image |-> original_image,
         final_image |-> final_image, last_image |-> last_image, trace |-> trace]

Install(v) ==
  /\ steps' = v.steps
  /\ attrs' = v.attrs
  /\ original_image' = v.original_image
  /\ final_image' = v.final_image
  /\ last_image' = v.last_image
  /\ trace' = v.trace

NoArg == [type |-> "", id |-> 0, name |-> "", value |-> Num(0), enabled |-> FALSE]
Idle == [op |-> "other", arg |-> NoArg, rc |-> "none"]

\* A call of the kind under watch is recorded with its arguments and result;
\* how the call's run ended is recorded for every call.
Record(kind, op, arg, r) ==
  /\ ret' = IF kind = watch THEN [op |-> op, arg |-> arg, rc |-> r.rc] ELSE Idle
  /\ run' = r.run
  /\ UNCHANGED <<watch, process, hub>>

\* The (name, value) pairs a caller sends for a step of the class.
UpdateInputs(cls) ==
  CASE cls = "HFlip" -> {<<"p", Num(0)>>, <<"p", Num(2)>>, <<"p", Str>>}
    [] OTHER -> {<<"zz", Num(2)>>}

\* A step id that is not in the pipeline.
UnknownId == 0

\* AugView.__init__
EmptyViewer ==
  [steps |-> <<>>, attrs |-> <<>>, original_image |-> NoBlob, final_image |-> NoBlob,
   last_image |-> NoneImg, trace |-> <<>>]

\* The viewer is v.
Holds(v) ==
  /\ steps = v.steps
  /\ attrs = v.attrs
  /\ original_image = v.original_image
  /\ final_image = v.final_image
  /\ last_image = v.last_image
  /\ trace = v.trace

\* No AugView has been created through the module globals and start_server has
\* not been called (where one viewer is studied, it is held in steps .. trace).
NoInstance ==
  /\ viewers = <<>>
  /\ current_viewer = 0
  /\ server_viewer = 0
  /\ serving = FALSE

\* No observer has connected and no callback has created a task.
HubIdle ==
  /\ connected_clients = {}
  /\ socket = [o \in Observers |-> "new"]
  /\ tasks = <<>>
  /\ inbox = [o \in Observers |-> <<>>]
  /\ commands = 0
  /\ NoInstance

\* A viewer right after construction, used without the server; ret records the
\* calls of the kind w.
Watching(w) ==
  /\ Holds(EmptyViewer)
  /\ HubIdle
  /\ run = "none"
  /\ ret = Idle
  /\ watch = w

Init == \E w \in {"run", "update", "toggle"} : Watching(w)
InitRun == Watching("run")
InitUpdate == Watching("update")
InitToggle == Watching("toggle")

\* The call's effect on the viewer and its record.
Effect(kind, op, arg, r) == Install(r.v) /\ Record(kind, op, arg, r)

AddTransform ==
  /\ Len(steps) < MaxSteps
  /\ \E cls \in Classes :
       Effect("add", "add_transform", NoArg, NoRun(add_transform(View, cls), "none"))

ProcessImage ==
  \E image \in SourceImages :
    LET r == process_image(View, image)
    IN /\ Install(r.v)
       /\ Record("run", "process_image", NoArg, r)

Rerun ==
  LET r == rerun(View)
  IN /\ Install(r.v)
     /\ Record("run", "rerun", NoArg, r)

UpdateStepParam ==
  \E id \in {UnknownId} \cup (1..Len(steps)) :
    \E nv \in UpdateInputs(IF id = UnknownId THEN "ToPIL" ELSE steps[id].cls) :
      Effect("update", "update_step_param",
             [NoArg EXCEPT !.id = id, !.name = nv[1], !.value = nv[2]],
             update_step_param(View, id, nv[1], nv[2]))

ToggleStep ==
  \E id \in {UnknownId} \cup (1..Len(steps)), enabled \in BOOLEAN :
    Effect("toggle", "toggle_step", [NoArg EXCEPT !.id = id, !.enabled = enabled],
           toggle_step(View, id, enabled))

Next ==
  \/ AddTransform
  \/ ProcessImage
  \/ Rerun
  \/ UpdateStepParam
  \/ ToggleStep

Spec == Init /\ [][Next]_vars

\* The same machine with ret recording one kind of call.
SpecRun == InitRun /\ [][Next]_vars
SpecUpdate == InitUpdate /\ [][Next]_vars
SpecToggle == InitToggle /\ [][Next]_vars

\* ------------------------------------------------------------------ the hub
\* Pipeline.to_dict(): the snapshot a pipeline_update message carries.
to_dict(v) == [steps |-> v.steps, original_image |-> v.original_image,
               final_image |-> v.final_image]

\* asyncio.create_task(broadcast_update(p.to_dict())): the task, not yet started.
\* seen: the clients the loop has visited; n: the size of the set when the loop
\* began; disconnected: the clients whose send raised.
NewTask(data) == [data |-> data, pc |-> "created", seen |-> {}, n |-> 0, disconnected |-> {}]

\* _notify_update at the end of a run that completed, with the one callback
\* start_server registered.
Notified_Always(q, r) == Append(q, NewTask(to_dict(r.v)))

Notified(q, r) == IF r.run = "returned" THEN Append(q, NewTask(to_dict(r.v))) ELSE q

\* The viewer start_server is called with: HFlip, then NoRet, disabled.
ServedViewer ==
  toggle_step(add_transform(add_transform(EmptyViewer, "HFlip"), "NoRet"), 2, FALSE).v

\* websocket_endpoint, the rerun branch.
ws_rerun(v) ==
  IF v.original_image # NoBlob THEN process_image(v, base64_to_image(v.original_image))
  ELSE NoRun(v, "none")

\* The well-formed messages an observer sends.
Messages(v) ==
  {[NoArg EXCEPT !.type = "rerun"]}
  \cup {[NoArg EXCEPT !.type = "toggle_step", !.id = id, !.enabled = e] :
          id \in {UnknownId} \cup (1..Len(v.steps)), e \in BOOLEAN}
  \cup UNION {{[NoArg EXCEPT !.type = "update_param", !.id = id, !.name = nv[1], !.value = nv[2]] :
                 nv \in UpdateInputs(IF id = UnknownId THEN "ToPIL" ELSE v.steps[id].cls)} :
               id \in {UnknownId} \cup (1..Len(v.steps))}

\* websocket_endpoint, one turn of the receive loop on the message: the viewer's
\* method is called, not awaited, and runs to its end within the turn.
Handle_Deferred(v, m) ==
  CASE m.type = "update_param" -> update_step_param(v, m.id, m.name, m.value)
    [] m.type = "toggle_step" ->
         IF KnownId(v, m.id) THEN NoRun([v EXCEPT !.steps[m.id].enabled = m.enabled], "true")
         ELSE NoRun(v, "false")
    [] OTHER -> ws_rerun(v)

Handle(v, m) ==
  CASE m.type = "update_param" -> update_step_param(v, m.id, m.name, m.value)
    [] m.type = "toggle_step" -> toggle_step(v, m.id, m.enabled)
    [] OTHER -> ws_rerun(v)

Remove(q, i) == [j \in 1..(Len(q) - 1) |-> IF j < i THEN q[j] ELSE q[j + 1]]

\* The snapshot a command or an ended broadcast task is recorded with.
NoData == to_dict(EmptyViewer)

\* server.start_server(viewer) has registered the callback; no image yet.
InitHub ==
  /\ Holds(ServedViewer)
  /\ HubIdle
  /\ run = "none"
  /\ ret = Idle
  /\ watch = "hub"

\* websocket_endpoint, "if viewer: await websocket.send_text(...)": what the
\* handler sends before it enters the receive loop.
InitialMessages_None(v) == <<>>

InitialMessages(v) == <<to_dict(v)>>

\* websocket_endpoint up to the receive loop: accept, add to the set, send the
\* current snapshot.  The message is handed to the connection in the turn that
\* adds the observer to the set, before the handler can be suspended.
Connect(o) ==
  /\ socket[o] = "new"
  /\ connected_clients' = connected_clients \cup {o}
  /\ socket' = [socket EXCEPT ![o] = "open"]
  /\ inbox' = [inbox EXCEPT ![o] = @ \o InitialMessages(View)]
  /\ ret' = Idle
  /\ run' = "none"
  /\ UNCHANGED <<steps, attrs, original_image, final_image, last_image, trace,
                 watch, process, tasks, commands>>

\* The observer closes: receive_text raises WebSocketDisconnect.
Disconnect(o) ==
  /\ socket[o] = "open"
  /\ connected_clients' = connected_clients \ {o}
  /\ socket' = [socket EXCEPT ![o] = "closed"]
  /\ inbox' = [inbox EXCEPT ![o] = <<>>]
  /\ ret' = Idle
  /\ run' = "none"
  /\ UNCHANGED <<steps, attrs, original_image, final_image, last_image, trace,
                 watch, process, tasks, commands>>

\* The result r of a command of observer o: an exception ends the handler, the
\* observer stays in the set; a completed run creates the broadcast task.
Commanded(o, m, r) ==
  /\ Install(r.v)
  /\ tasks' = Notified(tasks, r)
  /\ socket' = IF r.rc = "raised" THEN [socket EXCEPT ![o] = "closed"] ELSE socket
  /\ inbox' = IF r.rc = "raised" THEN [inbox EXCEPT ![o] = <<>>] ELSE inbox
  /\ ret' = [op |-> m.type, arg |-> NoArg, rc |-> r.rc, data |-> to_dict(r.v)]
  /\ run' = r.run
  /\ commands' = commands + 1
  /\ UNCHANGED <<watch, process, connected_clients>>

Command(o) ==
  /\ socket[o] = "open"
  /\ commands < MaxCommands
  /\ \E m \in Messages(View) : Commanded(o, m, Handle(View, m))

\* The observer sends an update_param or toggle_step message that lacks a key:
\* message["step_id"] raises KeyError, which ends the handler; the observer
\* stays in the set.
BadMessage(o) ==
  /\ socket[o] = "open"
  /\ socket' = [socket EXCEPT ![o] = "closed"]
  /\ inbox' = [inbox EXCEPT ![o] = <<>>]
  /\ ret' = [op |-> "incomplete", arg |-> NoArg, rc |-> "raised", data |-> NoData]
  /\ run' = "none"
  /\ UNCHANGED <<steps, attrs, original_image, final_image, last_image, trace,
                 watch, process, connected_clients, tasks, commands>>

\* The image files an observer uploads: np.array(Image.open(...)) of an RGBA file.
UploadImages == { Nd(4, "u8", <<127, 128>>) }

\* upload_image: process_image inside the try block.
Uploaded(r) ==
  /\ Install(r.v)
  /\ tasks' = Notified(tasks, r)
  /\ ret' = [op |-> "upload", arg |-> NoArg, rc |-> r.rc, data |-> to_dict(r.v)]
  /\ run' = r.run
  /\ commands' = commands + 1
  /\ UNCHANGED <<watch, process, connected_clients, socket, inbox>>

Upload ==
  /\ commands < MaxCommands
  /\ \E image \in UploadImages : Uploaded(process_image(View, image))

\* broadcast_update, the body of the loop for client c: the task t after the
\* send; a send that raises is caught and the client noted in disconnected.
Sent_Stops(t, c, ok) ==
  [t EXCEPT !.seen = IF ok THEN @ \cup {c} ELSE Observers,
            !.disconnected = IF ok THEN @ ELSE @ \cup {c}]

Sent(t, c, ok) ==
  [t EXCEPT !.seen = @ \cup {c}, !.disconnected = IF ok THEN @ ELSE @ \cup {c}]

\* broadcast_update, one send of task i to client c, t the task before it.
Send(i, c, t) ==
  /\ inbox' = IF socket[c] = "open" THEN [inbox EXCEPT ![c] = Append(@, t.data)] ELSE inbox
  /\ tasks' = [tasks EXCEPT ![i] = Sent(t, c, socket[c] = "open")]
  /\ ret' = Idle
  /\ UNCHANGED connected_clients

\* The task ends: by return, or by the error of the set iterator.
Ended(i, t, rc) ==
  /\ tasks' = Remove(tasks, i)
  /\ ret' = [op |-> "broadcast_update", arg |-> NoArg, rc |-> rc, data |-> t.data,
             failed |-> t.disconnected]
  /\ UNCHANGED inbox

\* broadcast_update from its start to the first await; tasks start in the order
\* of their creation.
BroadcastStart ==
  \E i \in 1..Len(tasks) :
    /\ tasks[i].pc = "created"
    /\ \A j \in 1..(i - 1) : tasks[j].pc # "created"
    /\ IF connected_clients = {}
       THEN Ended(i, tasks[i], "empty") /\ UNCHANGED connected_clients
       ELSE \E c \in connected_clients :
              Send(i, c, [tasks[i] EXCEPT !.pc = "sending", !.n = Cardinality(connected_clients)])
    /\ run' = "none"
    /\ UNCHANGED <<steps, attrs, original_image, final_image, last_image, trace,
                   watch, process, socket, commands>>

\* broadcast_update resumed after a send: the set iterator raises when the set
\* has changed size, else the next client is sent to, else the clients whose
\* send raised are removed and the task returns.
BroadcastResume ==
  \E i \in 1..Len(tasks) :
    /\ tasks[i].pc = "sending"
    /\ IF Cardinality(connected_clients) # tasks[i].n
       THEN Ended(i, tasks[i], "error") /\ UNCHANGED connected_clients
       ELSE IF connected_clients \ tasks[i].seen = {}
       THEN /\ Ended(i, tasks[i], "sent")
            /\ connected_clients' = connected_clients \ tasks[i].disconnected
       ELSE \E c \in connected_clients \ tasks[i].seen : Send(i, c, tasks[i])
    /\ run' = "none"
    /\ UNCHANGED <<steps, attrs, original_image, final_image, last_image, trace,
                   watch, process, socket, commands>>

NextHub ==
  \/ \E o \in Observers : Connect(o)
  \/ \E o \in Observers : Disconnect(o)
  \/ \E o \in Observers : Command(o)
  \/ \E o \in Observers : BadMessage(o)
  \/ Upload
  \/ BroadcastStart
  \/ BroadcastResume

SpecHub == InitHub /\ [][NextHub]_vars

\* The event loop runs every task it holds: a created broadcast task is
\* started, and one that awaits a send is resumed.
SpecHubLive == SpecHub /\ WF_vars(BroadcastStart) /\ WF_vars(BroadcastResume)

\* ------------------------------------------------------------------ the requests
\* The answer of a request: the viewer after it, the status of the response,
\* how the last run it made ended, and the broadcast tasks after it.
Answer(v, status, ran, q) == [v |-> v, rc |-> status, run |-> ran, tasks |-> q]

\* server.get_step
get_step(v, id, q) ==
  IF KnownId(v, id) THEN Answer(v, "200", "none", q) ELSE Answer(v, "404", "none", q)

\* server.toggle_step: "if not success" is 404; an exception leaves the handler
\* and is answered 500.
ToggleAnswer(r, q) ==
  Answer(r.v, CASE r.rc = "true" -> "200" [] r.rc = "false" -> "404" [] OTHER -> "500",
         r.run, Notified(q, r))

api_toggle_step(v, id, enabled, q) == ToggleAnswer(toggle_step(v, id, enabled), q)

\* server.update_step_params: the loop over params.items(); params is the map
\* as the sequence of its (name, value) items, ran how the last run so far ended.
RECURSIVE update_step_params(_, _, _, _, _)
ParamAnswer_Continues(r, id, rest, q) ==
  update_step_params(r.v, id, rest, r.run, Notified(q, r))

ParamAnswer(r, id, rest, q) ==
  IF r.rc = "false" THEN Answer(r.v, "400", r.run, q)
  ELSE update_step_params(r.v, id, rest, r.run, Notified(q, r))

update_step_params(v, id, params, ran, q) ==
  IF params = <<>> THEN Answer(v, "200", ran, q)
  ELSE ParamAnswer(update_step_param(v, id, params[1][1], params[1][2]), id, Tail(params), q)

\* server.rerun_pipeline
RerunAnswer(r, q) ==
  Answer(r.v, IF r.rc = "returned" THEN "200" ELSE "500", r.run, Notified(q, r))

rerun_pipeline(v, q) ==
  IF v.original_image = NoBlob THEN Answer(v, "400", "none", q)
  ELSE RerunAnswer(process_image(v, base64_to_image(v.original_image)), q)

\* The params maps a caller sends for a step of the class.
ParamMaps(cls) ==
  CASE cls = "HFlip" ->
         {<<>>, <<<<"p", Num(0)>>>>, <<<<"zz", Num(2)>>, <<"p", Str>>, <<"yy", Num(2)>>>>}
    [] OTHER -> {<<>>, <<<<"zz", Num(2)>>>>}

NoReq == [id |-> 0, params |-> <<>>, enabled |-> FALSE]

\* The request's effect on the viewer and the hub, and its record.
Answered(op, arg, r) ==
  /\ Install(r.v)
  /\ tasks' = r.tasks
  /\ ret' = [op |-> op, arg |-> arg, rc |-> r.rc]
  /\ run' = r.run
  /\ commands' = commands + 1
  /\ UNCHANGED <<watch, process, connected_clients, socket, inbox>>

GetStep ==
  /\ commands < MaxCommands
  /\ \E id \in {UnknownId} \cup (1..Len(steps)) :
       Answered("get_step", [NoReq EXCEPT !.id = id], get_step(View, id, tasks))

UpdateStepParams ==
  /\ commands < MaxCommands
  /\ \E id \in {UnknownId} \cup (1..Len(steps)) :
       \E params \in ParamMaps(IF id = UnknownId THEN "HFlip" ELSE steps[id].cls) :
         Answered("update_step_params", [NoReq EXCEPT !.id = id, !.params = params],
                  update_step_params(View, id, params, "none", tasks))

ToggleStepRequest ==
  /\ commands < MaxCommands
  /\ \E id \in {UnknownId} \cup (1..Len(steps)), enabled \in BOOLEAN :
       Answered("toggle_step", [NoReq EXCEPT !.id = id, !.enabled = enabled],
                api_toggle_step(View, id, enabled, tasks))

RerunPipeline ==
  /\ commands < MaxCommands
  /\ Answered("rerun_pipeline", NoReq, rerun_pipeline(View, tasks))

\* The server with no observer connected: requests, uploads, and the broadcast
\* tasks the runs create.
NextRequests ==
  \/ GetStep
  \/ UpdateStepParams
  \/ ToggleStepRequest
  \/ RerunPipeline
  \/ Upload
  \/ BroadcastStart

SpecRequests == InitHub /\ [][NextRequests]_vars


\* ------------------------------------------------------------------ constructors
\* The parameters a transform's constructor can declare: an annotation or none,
\* and no default or one of these: floats from -1.5 to 2.5, ints, a bool, a
\* string, a pair, an array.
Defaults ==
  {Empty, Num(-3), Num(0), Num(1), Num(2), Num(5), IntVal(3), IntVal(60), True, Str,
   Pair(Num(1), Num(3)), Arr}
Parameters ==
  [name : {"p", "strength"}, annotation : {"", "float", "int", "bool"}, default : Defaults]

\* The constructors: opaque (no signature), or of one or two parameters, with
\* **kwargs after them or not.
Constructors ==
  {[found |-> FALSE, parameters |-> <<>>]}
    \cup {Found(<<a>>) : a \in Parameters}
    \cup {Found(<<a, [name |-> "kwargs", annotation |-> "", default |-> Empty]>>) :
            a \in Parameters}
    \cup {Found(<<ab[1], ab[2]>>) :
            ab \in {c \in Parameters \X Parameters : c[1].name # c[2].name}}

\* A transform of any of the constructors is about to be added.
InitExtract ==
  /\ Holds(EmptyViewer)
  /\ HubIdle
  /\ run = "none"
  /\ watch = "extract"
  /\ \E ctor \in Constructors : ret = [op |-> "constructor", arg |-> ctor, rc |-> NoSpecs]

\* self.param_specs = _extract_param_specs(transform)
ExtractParamSpecs ==
  /\ ret.op = "constructor"
  /\ ret' = [op |-> "_extract_param_specs", arg |-> ret.arg, rc |-> ParamSpecs(ret.arg)]
  /\ UNCHANGED <<steps, attrs, original_image, final_image, last_image, trace, run,
                 watch, process, hub>>

SpecExtract == InitExtract /\ [][ExtractParamSpecs]_vars


\* ------------------------------------------------------------------ serialization
\* The values a transform attribute can hold, besides None, str, int, float and
\* bool: members of enumerations (plain Enum, IntEnum, str-based Enum), numpy
\* scalars and arrays, objects, and lists, tuples and dicts of all these.
Member(base, name, value) == [t |-> "enum", base |-> base, name |-> name, value |-> value]
Text(s) == [t |-> "str", s |-> s]
NpBool == [t |-> "np.bool_"]
NpInteger(k) == [t |-> "np.integer", n |-> k]
NpFloating(k) == [t |-> "np.floating", n |-> k]
NdArray(items) == [t |-> "ndarray", items |-> items]
\* an object with or without __dict__, whose __str__ returns or raises
Object(dict, str) == [t |-> "object", dict |-> dict, str |-> str]
List(items) == [t |-> "list", items |-> items]
Tuple(items) == [t |-> "tuple", items |-> items]
Dict(value) == [t |-> "dict", key |-> "k", value |-> value]

Scalars ==
  {NoProb, Text("text"), IntVal(3), Num(1), True, NpBool, NpInteger(3), NpFloating(1),
   Member("", "RED", IntVal(1)), Member("int", "REFLECT", IntVal(4)),
   Member("str", "BILINEAR", Text("bilinear")),
   NdArray(<<Num(1), Num(2)>>),
   Object(TRUE, "repr"), Object(FALSE, "repr"), Object(FALSE, "raises")}

Items == {<<a>> : a \in Scalars} \cup {<<ab[1], ab[2]>> : ab \in Scalars \X Scalars}

ParamValues ==
  Scalars \cup {Object(TRUE, "raises")}
    \cup {List(i) : i \in Items} \cup {Tuple(i) : i \in Items} \cup {Dict(a) : a \in Scalars}

\* str(obj) of an object: it raises, or gives the text
StrRaises(obj) == obj.t = "object" /\ obj.str = "raises"

\* convert_to_native(obj).  An IntEnum member is an int and a str-based member
\* is a str (isinstance(obj, (str, int, float, bool))), so both are returned as
\* they are.  Lists, tuples and dicts are converted item by item, and an
\* exception of an item is the call's.
RECURSIVE convert_to_native(_)
Converted(items) == IF \E k \in DOMAIN items : items[k] = Raise THEN Raise ELSE List(items)

ConvertedEntry(key, value) == IF value = Raise THEN Raise ELSE [Dict(value) EXCEPT !.key = key]

convert_to_native(obj) ==
  CASE obj.t \in {"none", "str", "int", "num", "bool"} -> obj
    [] obj.t = "enum" /\ obj.base # "" -> obj
    [] obj.t = "ndarray" -> List(obj.items)
    [] obj.t = "np.bool_" -> True
    [] obj.t = "np.integer" -> IntVal(obj.n)
    [] obj.t = "np.floating" -> Num(obj.n)
    [] obj.t = "enum" -> Text(obj.name)
    [] obj.t = "dict" -> ConvertedEntry(obj.key, convert_to_native(obj.value))
    [] obj.t \in {"list", "tuple"} ->
         Converted([k \in DOMAIN obj.items |-> convert_to_native(obj.items[k])])
    [] obj.t = "object" /\ obj.dict -> IF StrRaises(obj) THEN Raise ELSE Text("repr")
    [] OTHER -> IF StrRaises(obj) THEN NoProb ELSE Text("repr")

\* The JSON texts.
JNull == [j |-> "null"]
JString(s) == [j |-> "string", s |-> s]

\* json.dumps(x, cls=SafeJSONEncoder) of a converted value: an int or str
\* subclass is written as the int or str it is, and SafeJSONEncoder.default is
\* asked only for what json cannot write itself (a plain Enum member: its name).
RECURSIVE safe_json_dumps(_)
safe_json_dumps(x) ==
  CASE x.t = "none" -> JNull
    [] x.t = "bool" -> [j |-> "bool"]
    [] x.t \in {"int", "num"} -> [j |-> "number", of |-> x]
    [] x.t = "str" -> JString(x.s)
    [] x.t = "enum" /\ x.base = "int" -> [j |-> "number", of |-> x.value]
    [] x.t = "enum" /\ x.base = "str" -> JString(x.value.s)
    [] x.t = "list" ->
         [j |-> "array", items |-> [k \in DOMAIN x.items |-> safe_json_dumps(x.items[k])]]
    [] x.t = "dict" -> [j |-> "object", key |-> x.key, value |-> safe_json_dumps(x.value)]
    [] OTHER -> JString(x.name)

\* TransformStep.to_dict, the entry of one parameter value, as the text
\* broadcast_update sends; "raised" if convert_to_native raises.
Serialized(obj) ==
  IF convert_to_native(obj) = Raise THEN [j |-> "raised"]
  ELSE safe_json_dumps(convert_to_native(obj))

\* A step holds the parameter value.
InitSerialize ==
  /\ Holds(EmptyViewer)
  /\ HubIdle
  /\ run = "none"
  /\ watch = "serialize"
  /\ \E obj \in ParamValues : ret = [op |-> "param", arg |-> obj, rc |-> JNull]

\* safe_json_dumps({"params": convert_to_native(self.params)})
Serialize ==
  /\ ret.op = "param"
  /\ ret' = [op |-> "to_dict", arg |-> ret.arg, rc |-> Serialized(ret.arg)]
  /\ UNCHANGED <<steps, attrs, original_image, final_image, last_image, trace, run,
                 watch, process, hub>>

SpecSerialize == InitSerialize /\ [][Serialize]_vars


\* ------------------------------------------------------------------ instances
\* An AugView instance: its viewer state and the number of callbacks registered.
Instance(v, callbacks) == [view |-> v, callbacks |-> callbacks]

\* "viewer = _server_viewer or get_current_viewer()" of the handlers; 0 is None.
Active == IF server_viewer # 0 THEN server_viewer ELSE current_viewer

InitProcess ==
  /\ Holds(EmptyViewer)
  /\ HubIdle
  /\ run = "none"
  /\ ret = Idle
  /\ watch = "process"

\* No viewer is held in steps .. trace, and the hub has no observer.
Detached ==
  UNCHANGED <<steps, attrs, original_image, final_image, last_image, trace, run, watch, hub>>

\* AugView(): the instance is created and _current_viewer is set to it.
NewAugView ==
  /\ Len(viewers) < MaxViewers
  /\ viewers' = Append(viewers, Instance(EmptyViewer, 0))
  /\ current_viewer' = Len(viewers) + 1
  /\ ret' = Idle
  /\ UNCHANGED <<server_viewer, serving>>
  /\ Detached

\* viewer.add_transform(transform) on any instance, before the server starts.
AddTransformTo ==
  /\ ~serving
  /\ \E i \in DOMAIN viewers :
       /\ Len(viewers[i].view.steps) < MaxSteps
       /\ viewers' = [viewers EXCEPT ![i].view = add_transform(@, "HFlip")]
  /\ ret' = Idle
  /\ UNCHANGED <<current_viewer, server_viewer, serving>>
  /\ Detached

\* start_server(viewer), viewer an instance or None (0): _server_viewer is the
\* argument or else the current viewer, and the broadcast callback is
\* registered on it if it is not None.
Registered(q, i) == IF i = 0 THEN q ELSE [q EXCEPT ![i].callbacks = @ + 1]

StartServer ==
  /\ ~serving
  /\ \E viewer \in {0} \cup DOMAIN viewers :
       /\ server_viewer' = (IF viewer # 0 THEN viewer ELSE current_viewer)
       /\ viewers' = Registered(viewers, IF viewer # 0 THEN viewer ELSE current_viewer)
  /\ serving' = TRUE
  /\ ret' = Idle
  /\ UNCHANGED current_viewer
  /\ Detached

\* A handler has acted on instance i with result r; notified: the run
\* completed and _notify_update had a callback to call.
Acted(op, i, r) ==
  /\ viewers' = [viewers EXCEPT ![i].view = r.v]
  /\ ret' = [op |-> op, arg |-> NoArg, rc |-> r.rc, on |-> i,
             completed |-> r.run = "returned",
             notified |-> r.run = "returned" /\ viewers[i].callbacks > 0]
  /\ UNCHANGED <<current_viewer, server_viewer, serving>>
  /\ Detached

\* upload_image on the active instance
UploadTo ==
  /\ serving
  /\ Active # 0
  /\ \E image \in UploadImages :
       Acted("upload", Active, process_image(viewers[Active].view, image))

\* websocket_endpoint, a toggle_step message, on the active instance
ToggleOn ==
  /\ serving
  /\ Active # 0
  /\ \E id \in 1..Len(viewers[Active].view.steps), enabled \in BOOLEAN :
       Acted("toggle_step", Active, toggle_step(viewers[Active].view, id, enabled))

NextProcess ==
  \/ NewAugView
  \/ AddTransformTo
  \/ StartServer
  \/ UploadTo
  \/ ToggleOn

SpecProcess == InitProcess /\ [][NextProcess]_vars


\* ------------------------------------------------------------------ claims
Known(id) == id \in 1..Len(steps)
Pipeline == <<steps, original_image, final_image>>
HasSource == last_image # NoneImg \/ original_image # NoBlob

\* The last call executed the run to its end: every step was reached and the
\* final image is the encoding of the image the last step handed on.
FullRun ==
  /\ run = "returned"
  /\ DOMAIN trace = DOMAIN steps
  /\ \A i \in DOMAIN steps : trace[i].out \in {"ok", "skipped", "failed"}
  /\ steps # <<>> => final_image = image_to_base64(trace[Len(steps)].passed)

\* C1: after every run of process_image, every disabled step has
\* output_image = input_image and applied = false, and the image handed to the
\* next step (or used as final_image) is the image the disabled step received.
C1_DisabledStepPassesThrough ==
  run # "none" =>
    \A i \in DOMAIN steps :
      ~steps[i].enabled =>
        /\ steps[i].output_image = steps[i].input_image
        /\ steps[i].applied = FALSE
        /\ trace[i].out = "skipped"
        /\ trace[i].passed = trace[i].recv
        /\ i < Len(steps) => trace[i + 1].recv = trace[i].recv
        /\ i = Len(steps) => final_image = image_to_base64(trace[i].recv)

\* C1, in the runs that return: the same statement with run = "returned".
C1_HoldsWhenRunReturns ==
  run = "returned" =>
    \A i \in DOMAIN steps :
      ~steps[i].enabled =>
        /\ steps[i].output_image = steps[i].input_image
        /\ steps[i].applied = FALSE
        /\ trace[i].out = "skipped"
        /\ trace[i].passed = trace[i].recv
        /\ i < Len(steps) => trace[i + 1].recv = trace[i].recv
        /\ i = Len(steps) => final_image = image_to_base64(trace[i].recv)

\* C2: a step whose transform call fails ends with output_image = input_image
\* and applied = false, hands on the image it received, the remaining steps are
\* executed and process_image returns normally.
C2_StepFailureIsLocal ==
  run # "none" =>
    \A i \in DOMAIN trace :
      trace[i].out = "failed" =>
        /\ steps[i].output_image = steps[i].input_image
        /\ steps[i].applied = FALSE
        /\ trace[i].passed = trace[i].recv
        /\ \A j \in DOMAIN trace : j > i => trace[j].out \in {"ok", "skipped", "failed"}
        /\ run = "returned"

\* C3: after every completed run final_image is the output_image of the last
\* step, and original_image when there are no steps.
C3_FinalIsLastOutput ==
  run = "returned" =>
    final_image = IF steps = <<>> THEN original_image
                  ELSE steps[Len(steps)].output_image

\* C4: in every completed run the first step's input_image is the encoded
\* source image and every later step's input_image is the output_image of the
\* step before it.
C4_StepsChainInOrder ==
  run = "returned" =>
    \A i \in DOMAIN steps :
      steps[i].input_image = IF i = 1 THEN original_image ELSE steps[i - 1].output_image

\* C5: a rerun that follows a run (process_image or rerun) with no call in
\* between leaves original_image, every step's snapshot and final_image as
\* they were.
C5_RerunIsDeterministic ==
  [][(ret.op \in {"process_image", "rerun"} /\ ret'.op = "rerun") =>
       Pipeline' = Pipeline]_vars

C5_Witness ==
  /\ ret.op = "rerun"
  /\ run = "returned"
  /\ Len(steps) = MaxSteps
  /\ \E i \in DOMAIN steps : steps[i].applied

\* C6: update_step_param with an id that is not in the pipeline returns false,
\* runs nothing, notifies nobody and changes nothing.
C6_UnknownIdUpdateChangesNothing ==
  [][(ret'.op = "update_step_param" /\ ~Known(ret'.arg.id)) =>
       /\ ret'.rc = "false"
       /\ run' = "none"
       /\ UNCHANGED <<steps, attrs, original_image, final_image, last_image, trace>>]_vars

C6_Witness ==
  /\ ret.op = "update_step_param"
  /\ ~Known(ret.arg.id)
  /\ steps # <<>>
  /\ last_image # NoneImg

\* C7 as claimed: whenever update_step_param returns true the parameter holds
\* the new value and a full re-run was completed, in every reachable state.
C7_TrueMeansRerun ==
  (ret.op = "update_step_param" /\ ret.rc = "true") =>
    /\ steps[ret.arg.id].params[ret.arg.name] = ret.arg.value
    /\ FullRun

\* C7 amended: whenever update_step_param returns true the parameter (and the
\* live attribute) holds the new value, and a full re-run was completed before
\* the return if a source image exists; with no source image nothing ran.
C7_TrueMeansRerunIfSource ==
  (ret.op = "update_step_param" /\ ret.rc = "true") =>
    /\ steps[ret.arg.id].params[ret.arg.name] = ret.arg.value
    /\ attrs[ret.arg.id][ret.arg.name] = ret.arg.value
    /\ IF HasSource THEN FullRun ELSE run = "none"

C7_Witness ==
  /\ ret.op = "update_step_param"
  /\ ret.rc = "true"
  /\ ret.arg.name = "p"
  /\ FullRun
  /\ Len(steps) = MaxSteps

\* C8: an update whose name is not an attribute of the live transform, or
\* whose value is incompatible, returns false.
C8_UnknownAttributeIsRejected ==
  [][(/\ ret'.op = "update_step_param"
      /\ Known(ret'.arg.id)
      /\ \/ ret'.arg.name \notin DOMAIN attrs[ret'.arg.id]
         \/ ret'.arg.value = Str)
     => ret'.rc = "false"]_vars

\* C9, with a source image supplied: toggle_step with a known id sets that
\* step's enabled flag, leaves the other flags, performs a full re-run and
\* returns true; with an unknown id it returns false and changes nothing.
C9_ToggleRerunsAndReturnsTrue ==
  [][(ret'.op = "toggle_step" /\ last_image # NoneImg) =>
       IF Known(ret'.arg.id)
       THEN /\ steps'[ret'.arg.id].enabled = ret'.arg.enabled
            /\ \A i \in DOMAIN steps : i # ret'.arg.id => steps'[i].enabled = steps[i].enabled
            /\ FullRun'
            /\ ret'.rc = "true"
       ELSE /\ ret'.rc = "false"
            /\ UNCHANGED <<steps, attrs, original_image, final_image, last_image>>]_vars

\* The snapshot of the pipeline as it is.
Snapshot == to_dict(View)

\* The step is a command of an observer (update_param, toggle_step, rerun).
ObserverCommand ==
  commands' = commands + 1 /\ ret'.op \in {"update_param", "toggle_step", "rerun"}

Delivered(o, data) == \E k \in DOMAIN inbox[o] : inbox[o][k] = data

C11_InitialSnapshotFirst ==
  /\ [](\A o \in Observers : socket[o] = "new" => inbox[o] = <<>>)
  /\ [][\A o \in Observers :
          /\ (socket[o] = "new" /\ socket'[o] = "open") => inbox'[o] = <<Snapshot>>
          /\ (socket[o] = "open" /\ socket'[o] = "open") =>
                (Len(inbox'[o]) >= 1 /\ inbox'[o][1] = inbox[o][1])]_vars

\* An observer connected while the broadcast of an older run was pending: it
\* has the current snapshot first and the older one after it.
C11_Witness ==
  \E o \in Observers :
    /\ socket[o] = "open"
    /\ Len(inbox[o]) = 2
    /\ inbox[o][1] = Snapshot
    /\ inbox[o][2] # Snapshot
    /\ inbox[o][2].final_image # NoBlob

\* C12: within one broadcast a send that fails does not keep the snapshot from
\* the other observers: a broadcast that found failing observers and returned
\* has delivered its snapshot to every open observer of the connected set.
C12_FailureDoesNotStopFanOut ==
  (ret.op = "broadcast_update" /\ ret.rc = "sent" /\ ret.failed # {}) =>
    /\ connected_clients \cap ret.failed = {}
    /\ \A o \in connected_clients : socket[o] = "open" => Delivered(o, ret.data)

\* A broadcast found an observer failing, and the other observer, open, has
\* the greeting and then the snapshot of that broadcast.
C12_Witness ==
  /\ ret.op = "broadcast_update"
  /\ ret.rc = "sent"
  /\ ret.failed # {}
  /\ \E o \in connected_clients :
       /\ socket[o] = "open"
       /\ Len(inbox[o]) = 2
       /\ inbox[o][2] = ret.data
       /\ inbox[o][1] # ret.data

\* C13: an observer a broadcast found failing is out of the connected set
\* before another broadcast sends: no broadcast sends to an observer that a
\* broadcast in flight has already noted as failing.
C13_FailedObserverIsPrunedFirst ==
  [][\A i \in DOMAIN tasks, c \in Observers :
       (Len(tasks') = Len(tasks) /\ c \in tasks'[i].seen \ tasks[i].seen)
         => \A j \in DOMAIN tasks : c \notin tasks[j].disconnected]_vars

\* C14: executions of the pipeline do not interleave with anything.  A turn of
\* a handler that runs the pipeline (a command or an upload) delivers nothing
\* and has the run finished when it ends: a command that returns true with a
\* source image present, and every run that returns, has executed every step;
\* a rerun with an image loaded has run.  The turns of the other handlers and
\* of the broadcast tasks leave the pipeline and the viewer untouched.
C14_RunsDoNotInterleave ==
  [][/\ commands' = commands =>
          UNCHANGED <<steps, attrs, original_image, final_image, last_image, trace>>
     /\ commands' # commands =>
          /\ connected_clients' = connected_clients
          /\ \A o \in Observers : socket'[o] = "open" => inbox'[o] = inbox[o]
          /\ \A i \in DOMAIN tasks : tasks'[i] = tasks[i]
          /\ run' \in {"none", "returned", "raised"}
          /\ run' = "returned" => FullRun'
          /\ (ret'.rc = "true" /\ HasSource) => FullRun'
          /\ (ret'.op = "rerun" /\ original_image # NoBlob) => run' # "none"]_vars

\* A toggle command has re-run the whole pipeline while a broadcast task was
\* suspended at a send.
C14_Witness ==
  /\ ret.op = "toggle_step"
  /\ ret.rc = "true"
  /\ FullRun
  /\ Len(tasks) = 2
  /\ tasks[1].pc = "sending"
  /\ tasks[2] = NewTask(Snapshot)

\* C15: the rerun command executes against the cached source image and only
\* decodes original_image when there is none: a rerun with a cached source
\* leaves the cached source as it is.
C15_RerunKeepsCachedSource ==
  [][(commands' # commands /\ ret'.op = "rerun" /\ last_image # NoneImg)
       => last_image' = last_image]_vars

\* C16: every request that names a step id not in the pipeline (fetch step,
\* set step params with any params map, toggle step) is answered 404 and
\* leaves the pipeline unchanged.
C16_UnknownStepIsNotFound ==
  [][(/\ commands' # commands
      /\ ret'.op \in {"get_step", "update_step_params", "toggle_step"}
      /\ ~Known(ret'.arg.id))
       => /\ ret'.rc = "404"
          /\ UNCHANGED <<steps, attrs, original_image, final_image, last_image>>]_vars

\* What a run must leave alone in a step: all but input_image, output_image
\* and applied.
Frame(step) ==
  [id |-> step.id, name |-> step.cls, transform_type |-> step.transform_type,
   params |-> step.params, param_specs |-> step.param_specs,
   enabled |-> step.enabled, probability |-> step.probability]

\* C17: a run (process_image, rerun) changes of the pipeline only the steps'
\* input_image, output_image and applied and the pipeline's original_image and
\* final_image: the number and order of the steps and every other field of
\* every step are as before.
C17_RunChangesOnlyImages ==
  [][ret'.op \in {"process_image", "rerun"} =>
       /\ Len(steps') = Len(steps)
       /\ \A i \in DOMAIN steps : Frame(steps'[i]) = Frame(steps[i])]_vars

\* A run on a full pipeline with an edited parameter and a disabled step has
\* rewritten the images of its steps.
C17_Witness ==
  /\ ret.op \in {"process_image", "rerun"}
  /\ FullRun
  /\ Len(steps) = MaxSteps
  /\ \E i \in DOMAIN steps : steps[i].params # InitAttrs(steps[i].cls)
  /\ \E i \in DOMAIN steps : ~steps[i].enabled
  /\ \A i \in DOMAIN steps : steps[i].input_image # NoBlob

\* C18: in every reachable state, for every step, the keys of param_specs are
\* keys of params.
C18_SpecsHaveValues ==
  \A i \in DOMAIN steps : DOMAIN steps[i].param_specs \subseteq DOMAIN steps[i].params

\* C19: the step sequence is append-only.  No step is removed, moved or given
\* another id; the sequence grows only by one step at its end, which is
\* enabled and applied, has an id no step had before, and leaves the steps
\* before it as they were.
C19_StepsAreAppendOnly ==
  [][/\ Len(steps') >= Len(steps)
     /\ \A i \in DOMAIN steps : steps'[i].id = steps[i].id /\ steps'[i].cls = steps[i].cls
     /\ Len(steps') # Len(steps) =>
          /\ Len(steps') = Len(steps) + 1
          /\ SubSeq(steps', 1, Len(steps)) = steps
          /\ steps'[Len(steps')].enabled
          /\ steps'[Len(steps')].applied
          /\ \A i \in DOMAIN steps : steps[i].id # steps'[Len(steps')].id]_vars

\* A step has just been added behind a disabled step that a run has written.
C19_Witness ==
  /\ Len(steps) = MaxSteps
  /\ steps[Len(steps)].enabled
  /\ steps[Len(steps)].applied
  /\ steps[Len(steps)].input_image = NoBlob
  /\ ~steps[1].enabled
  /\ steps[1].input_image # NoBlob
  /\ \A i, j \in DOMAIN steps : i # j => steps[i].id # steps[j].id

\* C20: in every reachable state, for every step whose transform has an
\* attribute p, the step's probability, the transform's p and params["p"] are
\* the same value.
C20_ProbabilityMirrorsP ==
  \A i \in DOMAIN steps :
    "p" \in DOMAIN attrs[i] =>
      /\ steps[i].probability = attrs[i]["p"]
      /\ "p" \in DOMAIN steps[i].params
      /\ steps[i].params["p"] = attrs[i]["p"]

\* The specs the last extraction returned, and the parameters it was given.
Extracted == ret.op = "_extract_param_specs"

\* C21: for every constructor that declares a parameter named p, whatever its
\* annotation and default, the extracted spec of p has type float, min 0, max 1,
\* step 0.05 and is_probability true.
C21_ProbabilitySpecIsFixed ==
  Extracted =>
    \A k \in DOMAIN ret.arg.parameters :
      ret.arg.parameters[k].name = "p" =>
        /\ "p" \in DOMAIN ret.rc
        /\ ret.rc["p"].type = "float"
        /\ ret.rc["p"].min = Num(0)
        /\ ret.rc["p"].max = Num(2)
        /\ ret.rc["p"].step = "0.05"
        /\ ret.rc["p"].is_probability

\* C21, the scenario: a constructor whose only parameter is p = 0.5 gets the step
\* 0.05 for p.
C21_HalfDefaultKeepsStep ==
  (Extracted /\ ret.arg.parameters = <<[name |-> "p", annotation |-> "float", default |-> Num(1)]>>)
    => ret.rc["p"].step = "0.05"


\* C22: every parameter with a float default d that has a spec has min = 0 and
\* max = max(1, 2 * d) in it, whatever its annotation and the sign and size of d.
C22_FloatDefaultBounds ==
  Extracted =>
    \A k \in DOMAIN ret.arg.parameters :
      LET prm == ret.arg.parameters[k] IN
        (prm.default.t = "num" /\ prm.name \in DOMAIN ret.rc) =>
          /\ ret.rc[prm.name].min = Num(0)
          /\ ret.rc[prm.name].max = (IF prm.default.n > 1 THEN Num(2 * prm.default.n) ELSE Num(2))

\* C22: an int-annotated parameter of default -1.5 and a parameter p of default
\* 2.5 got the maxima 1 and 5.
C22_Witness ==
  /\ Extracted
  /\ ret.arg.parameters = <<[name |-> "strength", annotation |-> "int", default |-> Num(-3)],
                            [name |-> "p", annotation |-> "", default |-> Num(5)]>>
  /\ ret.rc["strength"].max = Num(2)
  /\ ret.rc["p"].max = Num(10)

\* The step and final image snapshots are those the run r leaves.
SnapshotsOf(r) == r.v.steps = steps /\ r.v.final_image = final_image

\* C23: once the handler of a mutation command has returned, with a source
\* image held, the step params are the live transform attributes and the step
\* and final image snapshots are those of a run (from the cached or the encoded
\* source) with the current attribute values and enabled flags.
C23_SnapshotsAreOfCurrentValues ==
  (/\ ret.op \in {"update_param", "toggle_step", "rerun"}
   /\ ret.rc # "raised"
   /\ original_image # NoBlob) =>
    /\ \A i \in DOMAIN steps : \A n \in DOMAIN attrs[i] : steps[i].params[n] = attrs[i][n]
    /\ SnapshotsOf(rerun(View)) \/ SnapshotsOf(ws_rerun(View))

\* The JSON text of an item that is rendered as the claim says: a numpy scalar
\* as a number or bool, an enumeration member as its name.
RenderedAsSaid(obj, text) ==
  /\ obj.t \in {"np.integer", "np.floating"} => text.j = "number"
  /\ obj.t = "np.bool_" => text.j = "bool"
  /\ obj.t = "enum" => text = JString(obj.name)
  /\ obj.t = "object" => text = JString("repr")

\* C24: serializing a parameter value never raises; numpy scalars become plain
\* numbers, every enumeration member (of a plain, int-based or str-based
\* enumeration) becomes its name, lists, tuples and dicts are converted item by
\* item, and any other object becomes its string representation.
C24_SerializationIsTotal ==
  ret.op = "to_dict" =>
    /\ ret.rc.j # "raised"
    /\ RenderedAsSaid(ret.arg, ret.rc)
    /\ ret.arg.t \in {"list", "tuple"} =>
         /\ ret.rc.j = "array"
         /\ \A k \in DOMAIN ret.arg.items : RenderedAsSaid(ret.arg.items[k], ret.rc.items[k])
    /\ ret.arg.t = "dict" =>
         /\ ret.rc.j = "object"
         /\ RenderedAsSaid(ret.arg.value, ret.rc.value)

\* C24, the enumerations alone: every member is rendered as its name.
C24_MembersByName ==
  (ret.op = "to_dict" /\ ret.arg.t = "enum") => ret.rc = JString(ret.arg.name)

\* Introspection of the constructor failed: it has no signature, or the
\* inspection of one of its parameters raised.
IntrospectionFailed(ctor) ==
  \/ ~ctor.found
  \/ \E k \in DOMAIN ctor.parameters :
       ctor.parameters[k].name \notin Skipped /\ InspectRaises(ctor.parameters[k])

\* C25: spec extraction never raises, and when introspection of the constructor
\* fails, at the signature lookup or at any one parameter, the result is the
\* empty map, never a partly filled one.
C25_FailedIntrospectionGivesNoSpecs ==
  (Extracted /\ IntrospectionFailed(ret.arg)) => ret.rc = NoSpecs

\* C26: in every state a step's applied flag is true only if the step is
\* enabled, the most recent run executed it without failure, and its output
\* differs from its input; a disabled step never has applied = true.
C26_AppliedOnlyIfExecuted ==
  \A i \in DOMAIN steps :
    steps[i].applied =>
      /\ steps[i].enabled
      /\ i \in DOMAIN trace
      /\ trace[i].out = "ok"
      /\ steps[i].output_image # steps[i].input_image

\* C26, the case of a toggle with no source image: a disabled step never has
\* applied = true.
C26_DisabledIsNotApplied ==
  \A i \in DOMAIN steps : ~steps[i].enabled => ~steps[i].applied

\* C28: the instance the hub's handlers act on is the first one created, for
\* the life of the process: creating a further AugView never changes it.
C28_HubServesFirstInstance ==
  /\ (serving /\ viewers # <<>>) => Active = 1
  /\ ret.op \in {"upload", "toggle_step"} => ret.on = 1

\* A handler's run has completed (it had a source image, so its snapshot and
\* every later one carry original_image).
RunCompleted ==
  ret.op \in {"upload", "update_param", "toggle_step", "rerun"} /\ run = "returned"

\* The observer has received the snapshot of a completed run.
HasRunSnapshot(o) == \E k \in DOMAIN inbox[o] : inbox[o][k].original_image # NoBlob

\* C27: every completed execution triggered by a command or a request is
\* eventually followed by the delivery of that run's snapshot, or a later one,
\* to every observer that stays open.
C27_CompletedRunIsDelivered ==
  \A o \in Observers :
    (RunCompleted /\ socket[o] = "open") ~> (socket[o] # "open" \/ HasRunSnapshot(o))

\* C27, whichever instance is active: a completed run on the instance the
\* handlers act on has a broadcast callback to call.
C27_ActiveInstanceNotifies ==
  (ret.op \in {"upload", "toggle_step"} /\ ret.completed) => ret.notified

\* The viewer after the first n parameters of the map were applied to the step,
\* one call of update_step_param each, in order.
RECURSIVE AfterParams(_, _, _, _)
AfterParams(v, id, params, n) ==
  IF n = 0 THEN v
  ELSE update_step_param(AfterParams(v, id, params, n - 1), id, params[n][1], params[n][2]).v

\* The n-th parameter of the map is rejected when its turn comes.
RejectedAt(v, id, params, n) ==
  update_step_param(AfterParams(v, id, params, n - 1), id, params[n][1], params[n][2]).rc = "false"

\* The parameters the request applies: up to the first one rejected, or all.
LastApplied(v, id, params) ==
  IF \E n \in DOMAIN params : RejectedAt(v, id, params, n)
  THEN CHOOSE n \in DOMAIN params :
         /\ RejectedAt(v, id, params, n)
         /\ \A m \in 1..(n - 1) : ~RejectedAt(v, id, params, m)
  ELSE Len(params)

\* C29: the set-step-params request applies the parameters one at a time in
\* order, each accepted one with its own effect and re-run; at the first one
\* rejected it answers 400, applies no later parameter and keeps the earlier
\* ones; with none rejected it answers 200.
C29_ParamsAppliedUpToFirstFailure ==
  [][ret'.op = "update_step_params" =>
        /\ View' = AfterParams(View, ret'.arg.id, ret'.arg.params,
                               LastApplied(View, ret'.arg.id, ret'.arg.params))
        /\ ret'.rc = (IF \E n \in DOMAIN ret'.arg.params :
                           RejectedAt(View, ret'.arg.id, ret'.arg.params, n)
                      THEN "400" ELSE "200")]_vars

\* C29: with a source image held, the request (zz, p = "abc", yy) on the flip
\* was answered 400: zz is set, the rejected p is where the loop stopped, and
\* yy was never applied.
C29_Witness ==
  /\ ret.op = "update_step_params"
  /\ ret.rc = "400"
  /\ Len(ret.arg.params) = 3
  /\ original_image # NoBlob
  /\ ret.arg.id \in DOMAIN attrs
  /\ "zz" \in DOMAIN attrs[ret.arg.id]
  /\ "yy" \notin DOMAIN attrs[ret.arg.id]

\* C30: whenever update_step_param returns false, the steps (their params,
\* probability and image snapshots), the live transforms' attributes and the
\* pipeline's images are what they were before the call.
C30_RejectedUpdateChangesNothing ==
  [][(ret'.op = "update_step_param" /\ ret'.rc = "false") =>
        UNCHANGED <<steps, attrs, original_image, final_image, last_image>>]_vars

\* The last snapshot the observer has received is the pipeline as it is.
UpToDate(o) == inbox[o] # <<>> /\ inbox[o][Len(inbox[o])] = Snapshot

\* C31: each open observer receives the snapshots in the order of the runs, so
\* that once broadcasting has quiesced (the broadcast of the current state has
\* ended and none is pending) the last snapshot every open observer has
\* received is the current pipeline state.
C31_QuiescentObserversAreUpToDate ==
  (tasks = <<>> /\ ret.op = "broadcast_update" /\ ret.data = Snapshot) =>
    \A o \in Observers : socket[o] = "open" => UpToDate(o)

\* C32: an observer connecting or disconnecting while a broadcast is suspended
\* at a send does not abort the broadcast: no broadcast task ends by an
\* unhandled error, and a task that returns has delivered its snapshot to every
\* open observer of the connected set.
C32_MembershipChangeDoesNotAbort ==
  ret.op = "broadcast_update" =>
    /\ ret.rc # "error"
    /\ ret.rc = "sent" =>
         \A o \in connected_clients : socket[o] = "open" => Delivered(o, ret.data)

\* C33: an observer is in the connected set exactly while its connection is
\* open: once its handler has ended, for whatever reason, it is out of the set.
C33_ConnectedExactlyWhileOpen ==
  \A o \in Observers : o \in connected_clients <=> socket[o] = "open"

\* The snapshot of a viewer: every step's input_image, output_image and
\* applied, and final_image.
Shots(v) ==
  <<[i \in DOMAIN v.steps |->
       <<v.steps[i].input_image, v.steps[i].output_image, v.steps[i].applied>>],
    v.final_image>>

\* Step i disabled and then enabled again.
RoundTrip(v, i) == toggle_step(toggle_step(v, i, FALSE).v, i, TRUE).v

\* C34: with a source image held, disabling an enabled step and enabling it
\* again restores exactly the snapshot there was before, and toggling a step to
\* the value it has leaves the snapshot as it is.
C34_ToggleRoundTrip ==
  last_image # NoneImg =>
    \A i \in DOMAIN steps :
      /\ steps[i].enabled => Shots(RoundTrip(View, i)) = Shots(View)
      /\ Shots(toggle_step(View, i, steps[i].enabled).v) = Shots(View)

\* The snapshot is that of a completed run of the steps as they are: running
\* again returns and changes nothing of it.
Fresh == rerun(View).run = "returned" /\ Shots(rerun(View).v) = Shots(View)

\* C34, for a snapshot of a completed run of the current steps and values:
\* disabling an enabled step and enabling it again restores exactly that
\* snapshot, and toggling a step to the value it has leaves it as it is.
C34_ToggleRoundTripOfFreshSnapshot ==
  (last_image # NoneImg /\ Fresh) =>
    \A i \in DOMAIN steps :
      /\ steps[i].enabled => Shots(RoundTrip(View, i)) = Shots(View)
      /\ Shots(toggle_step(View, i, steps[i].enabled).v) = Shots(View)

====
